---- MODULE Spec2Model ----
(***************************************************************************)
(* Model of the scholargy backend's "next steps" pipeline:                 *)
(*   - services/getNextSteps  (src/unnamed/part_000)                       *)
(*   - POST /api/dashboard/next-steps  (src/routes/dashboard.js)           *)
(*   - the launcher  (src/startup.js)                                      *)
(* A reasoning-service body is modelled as the sequence of its JSON        *)
(* tokens; JSON.parse is a recursive-descent parser over that sequence.    *)
(***************************************************************************)
EXTENDS Integers, Sequences, FiniteSets, TLC

VARIABLES
    gpc,        \* getNextSteps: "idle" | "awaiting" | "returned"
    gArgs,      \* the three arguments serialized into the user message
    gOutcome,   \* how the reasoning-service call settled
    gResult,    \* what getNextSteps handed to its caller
    hpc,        \* POST /next-steps: "idle" | "awaitProfile" | "awaitMatches" |
                \*   "awaitScholarships" | "awaitNextSteps" | "done"
    req,        \* req.body of the request being handled
    dbUp,       \* whether getDB() returned a handle for this request
    store,      \* the scholarships collection, in natural order
    loc,        \* the handler's studentProfile, collegeMatches, scholarships
    pending,    \* backing-store fetches started and not yet settled
    fetched,    \* backing-store fetches of this request that settled with a result
    failed,     \* backing-store fetches of this request that rejected
    res,        \* the response sent, status 0 while none is
    lpc,        \* the launcher process: "running" | "exited"
    lExit,      \* the launcher's exit status and which listener called process.exit
    child,      \* the spawned server: "running" | "exited" | "unspawned"
    childExit,  \* the (code) argument of the child's 'exit' event
    inbox,      \* signals delivered to the launcher, their handlers not yet run
    childInbox, \* signals forwarded to the child that it has not acted on
    events,     \* child events emitted, their listeners not yet run
    sent        \* signals sent to the launcher so far

gvars == <<gpc, gArgs, gOutcome, gResult>>
hvars == <<hpc, req, dbUp, store, loc, pending, fetched, failed, res>>
lvars == <<lpc, lExit, child, childExit, inbox, childInbox, events, sent>>
vars == <<gvars, hvars, lvars>>

(***************************************************************************)
(* Bounds                                                                  *)
(***************************************************************************)
MaxBodyLen == 2      \* every token sequence up to this length is a body
MaxSteps == 4        \* the longest "nextSteps" array among the sample bodies
MaxStore == 6        \* the most documents the scholarships collection holds
MaxSignals == 3      \* the most signals sent to the launcher
MaxChildCode == 2    \* the child exits with a code in 0..MaxChildCode

(***************************************************************************)
(* JSON values: every node is a record [t, s, a].                          *)
(***************************************************************************)
JV(t, s, a) == [t |-> t, s |-> s, a |-> a]
Undefined == JV("undefined", "", <<>>)
JNull == JV("null", "", <<>>)
JBool(lexeme) == JV("bool", lexeme, <<>>)
JNum(lexeme) == JV("num", lexeme, <<>>)
JStr(text) == JV("str", text, <<>>)
JArr(items) == JV("arr", "", items)
JMember(key, value) == JV("member", key, <<value>>)
JObj(members) == JV("obj", "", members)

(***************************************************************************)
(* Tokens of a body.  "s:x" is the string literal "x"; Sure and md-fence are   *)
(* prose and markdown fencing, which are no JSON tokens.                   *)
(***************************************************************************)
PunctToks == {"{", "}", "[", "]", ":", ","}
NumToks == {"0", "1"}
BoolToks == {"true", "false"}
StrToks == {"s:nextSteps", "s:task", "s:A", "s:"}
ProseToks == {"Sure", "md-fence"}
Tokens == PunctToks \cup NumToks \cup BoolToks \cup StrToks \cup ProseToks \cup {"null"}

StrContent(tok) ==
    CASE tok = "s:nextSteps" -> "nextSteps"
      [] tok = "s:task" -> "task"
      [] tok = "s:A" -> "A"
      [] OTHER -> ""

(***************************************************************************)
(* JSON.parse                                                              *)
(***************************************************************************)
ParseFail == [ok |-> FALSE, val |-> Undefined, next |-> 0]
ParseOk(v, n) == [ok |-> TRUE, val |-> v, next |-> n]

RECURSIVE ParseValue(_, _)
RECURSIVE ParseElements(_, _, _)
RECURSIVE ParseMembers(_, _, _)

ParseValue(toks, i) ==
    IF i > Len(toks) THEN ParseFail
    ELSE LET t == toks[i] IN
         CASE t = "null" -> ParseOk(JNull, i + 1)
           [] t \in BoolToks -> ParseOk(JBool(t), i + 1)
           [] t \in NumToks -> ParseOk(JNum(t), i + 1)
           [] t \in StrToks -> ParseOk(JStr(StrContent(t)), i + 1)
           [] t = "[" ->
                IF i + 1 <= Len(toks) /\ toks[i + 1] = "]"
                THEN ParseOk(JArr(<<>>), i + 2)
                ELSE ParseElements(toks, i + 1, <<>>)
           [] t = "{" ->
                IF i + 1 <= Len(toks) /\ toks[i + 1] = "}"
                THEN ParseOk(JObj(<<>>), i + 2)
                ELSE ParseMembers(toks, i + 1, <<>>)
           [] OTHER -> ParseFail

ParseElements(toks, i, acc) ==
    LET r == ParseValue(toks, i) IN
    IF ~r.ok \/ r.next > Len(toks) THEN ParseFail
    ELSE IF toks[r.next] = "," THEN ParseElements(toks, r.next + 1, Append(acc, r.val))
    ELSE IF toks[r.next] = "]" THEN ParseOk(JArr(Append(acc, r.val)), r.next + 1)
    ELSE ParseFail

ParseMembers(toks, i, acc) ==
    IF i + 1 > Len(toks) \/ toks[i] \notin StrToks \/ toks[i + 1] # ":" THEN ParseFail
    ELSE LET r == ParseValue(toks, i + 2) IN
         IF ~r.ok \/ r.next > Len(toks) THEN ParseFail
         ELSE LET m == JMember(StrContent(toks[i]), r.val) IN
              IF toks[r.next] = "," THEN ParseMembers(toks, r.next + 1, Append(acc, m))
              ELSE IF toks[r.next] = "}" THEN ParseOk(JObj(Append(acc, m)), r.next + 1)
              ELSE ParseFail

\* JSON.parse(text): the whole text must be one value, else a SyntaxError.
JSONparse(toks) ==
    LET r == ParseValue(toks, 1) IN
    IF r.ok /\ r.next = Len(toks) + 1
    THEN [threw |-> FALSE, val |-> r.val]
    ELSE [threw |-> TRUE, val |-> Undefined]

\* ToString(content), the coercion JSON.parse applies to its argument.
ToStr(content) == IF content.isNull THEN <<"null">> ELSE content.text

\* parsed.nextSteps: a TypeError on null, the last member of that name on an
\* object, undefined on every other value.
GetProp(v, key) ==
    IF v.t \in {"null", "undefined"} THEN [threw |-> TRUE, val |-> Undefined]
    ELSE IF v.t = "obj" /\ \E i \in 1..Len(v.a) : v.a[i].s = key
    THEN LET last == CHOOSE i \in 1..Len(v.a) :
                         /\ v.a[i].s = key
                         /\ \A j \in (i + 1)..Len(v.a) : v.a[j].s # key
         IN [threw |-> FALSE, val |-> v.a[last].a[1]]
    ELSE [threw |-> FALSE, val |-> Undefined]

\* JavaScript truthiness, as `||` tests it.
Truthy(v) ==
    CASE v.t \in {"arr", "obj"} -> TRUE
      [] v.t = "bool" -> v.s = "true"
      [] v.t = "num" -> v.s # "0"
      [] v.t = "str" -> v.s # ""
      [] OTHER -> FALSE

(***************************************************************************)
(* getNextSteps                                                            *)
(***************************************************************************)
FallbackSteps ==
    JArr(<< JObj(<<JMember("task", JStr("Complete your college applications early to meet deadlines"))>>),
            JObj(<<JMember("task", JStr("Research and apply for scholarships that match your profile"))>>),
            JObj(<<JMember("task", JStr("Prepare for college entrance exams and improve your test scores"))>>) >>)

Returned(v) == [kind |-> "value", val |-> v, error |-> ""]
Escaped(msg) == [kind |-> "throw", val |-> Undefined, error |-> msg]
NoResult == [kind |-> "none", val |-> Undefined, error |-> ""]

\* The outer catch: return { error: err.message }.
CatchErr(msg) == [kind |-> "error", val |-> Undefined, error |-> msg]

\* response.choices[0].message.content
ReadContent(resp) ==
    IF Len(resp.choices) = 0
    THEN [threw |-> TRUE, message |-> "Cannot read properties of undefined (reading 'message')",
          val |-> [isNull |-> TRUE, text |-> <<>>]]
    ELSE [threw |-> FALSE, message |-> "", val |-> resp.choices[1].content]

\* A variant that answers a body that does not parse with an empty sequence.
NormalizeBodyEmptyOnBadJson(content) ==
    LET p == JSONparse(ToStr(content)) IN
    IF p.threw THEN JArr(<<>>)
    ELSE LET g == GetProp(p.val, "nextSteps") IN
         IF g.threw THEN FallbackSteps
         ELSE IF Truthy(g.val) THEN g.val
         ELSE JArr(<<>>)

\* The inner try/catch: JSON.parse, `parsed.nextSteps || []`, fallback on any throw.
NormalizeBody(content) ==
    LET p == JSONparse(ToStr(content)) IN
    IF p.threw THEN FallbackSteps
    ELSE LET g == GetProp(p.val, "nextSteps") IN
         IF g.threw THEN FallbackSteps
         ELSE IF Truthy(g.val) THEN g.val
         ELSE JArr(<<>>)

OnFulfilled(resp) ==
    LET c == ReadContent(resp) IN
    IF c.threw THEN CatchErr(c.message) ELSE Returned(NormalizeBody(c.val))

\* A variant without the outer catch: the fault reaches the caller.
OnRejectedRethrows(message) == Escaped(message)

OnRejected(message) == CatchErr(message)

(***************************************************************************)
(* Inputs                                                                  *)
(***************************************************************************)
RECURSIVE SeqsUpTo(_, _)
SeqsUpTo(S, n) ==
    IF n = 0 THEN {<<>>}
    ELSE LET shorter == SeqsUpTo(S, n - 1) IN
         shorter \cup {Append(q, x) : q \in {p \in shorter : Len(p) = n - 1}, x \in S}

RECURSIVE StepToks(_)
StepToks(n) ==
    IF n = 0 THEN <<>>
    ELSE IF n = 1 THEN <<"{", "s:task", ":", "s:A", "}">>
    ELSE StepToks(n - 1) \o <<",", "{", "s:task", ":", "s:A", "}">>

WithNextSteps(valueToks) == <<"{", "s:nextSteps", ":">> \o valueToks \o <<"}">>

SampleBodies ==
    {WithNextSteps(<<"[">> \o StepToks(n) \o <<"]">>) : n \in 0..MaxSteps}
    \cup {WithNextSteps(<<t>>) : t \in NumToks \cup BoolToks \cup {"null", "s:A", "s:", "Sure"}}
    \cup {WithNextSteps(<<"{", "}">>),
          <<"{", "s:task", ":", "s:A", "}">>,
          <<"[">> \o StepToks(3) \o <<"]">>,
          <<"Sure">> \o WithNextSteps(<<"[">> \o StepToks(3) \o <<"]">>),
          <<"md-fence">> \o WithNextSteps(<<"[">> \o StepToks(3) \o <<"]">>) \o <<"md-fence">>,
          WithNextSteps(<<"[">> \o StepToks(3) \o <<"]">>) \o <<"Sure">>,
          <<"{", "s:nextSteps", ":", "[">> \o StepToks(2),
          WithNextSteps(<<"[">> \o StepToks(3) \o <<",", "]">>),
          <<"{", "s:nextSteps", ":", "[", "]", ",", "s:nextSteps", ":", "1", "}">>,
          <<"{", "s:nextSteps", ":", "1", ",", "s:nextSteps", ":", "[">> \o StepToks(3) \o <<"]", "}">>}

Bodies == SeqsUpTo(Tokens, MaxBodyLen) \cup SampleBodies

Contents == {[isNull |-> TRUE, text |-> <<>>]} \cup {[isNull |-> FALSE, text |-> b] : b \in Bodies}

Responses == {[choices |-> <<>>]} \cup {[choices |-> <<[content |-> c]>>] : c \in Contents}

FaultMessages == {"Connection error.", "401 Incorrect API key provided", "429 You exceeded your current quota"}

NoOutcome == [settled |-> "none", response |-> [choices |-> <<>>], message |-> ""]
Fulfilled(resp) == [settled |-> "fulfilled", response |-> resp, message |-> ""]
Rejected(msg) == [settled |-> "rejected", response |-> [choices |-> <<>>], message |-> msg]

NoArgs == [profile |-> "none", matches |-> "none", scholarships |-> <<>>]
DirectArgs ==
    {[profile |-> p, matches |-> m, scholarships |-> s] :
        p \in {"{}", "callerProfile"}, m \in {"[]", "callerMatches"},
        s \in {<<>>, <<[title |-> "t1", amount |-> 1000, deadline |-> "2026-01-01"]>>}}

(***************************************************************************)
(* getNextSteps as steps                                                   *)
(***************************************************************************)
\* lines 12-62: compose the user message and issue the one request.
GetNextStepsCall(args) ==
    /\ gpc = "idle"
    /\ gpc' = "awaiting"
    /\ gArgs' = args
    /\ gOutcome' = NoOutcome
    /\ gResult' = NoResult

\* lines 64-78 (and 80-83 when reading the response throws).
ServiceFulfils(resp) ==
    /\ gpc = "awaiting"
    /\ gpc' = "returned"
    /\ gOutcome' = Fulfilled(resp)
    /\ gResult' = OnFulfilled(resp)
    /\ UNCHANGED gArgs

\* lines 80-83.
ServiceRejects(msg) ==
    /\ gpc = "awaiting"
    /\ gpc' = "returned"
    /\ gOutcome' = Rejected(msg)
    /\ gResult' = OnRejected(msg)
    /\ UNCHANGED gArgs

CallerTakesResult ==
    /\ gpc = "returned"
    /\ gpc' = "idle"
    /\ gArgs' = NoArgs
    /\ gOutcome' = NoOutcome
    /\ gResult' = NoResult

(***************************************************************************)
(* The backing store                                                       *)
(***************************************************************************)
TopN == 5

Amounts == {500, 1000}

Doc(id, amt) == [title |-> id, amount |-> amt, deadline |-> "2026-01-01", description |-> "d"]

Stores ==
    UNION {{[i \in 1..n |-> Doc(i, f[i])] : f \in [1..n -> Amounts]} : n \in 0..MaxStore}

\* Insert one document into a sequence already in descending order of amount,
\* after the documents of the same amount.
RECURSIVE InsertDesc(_, _)
InsertDesc(sorted, d) ==
    IF sorted = <<>> THEN <<d>>
    ELSE IF Head(sorted).amount >= d.amount THEN <<Head(sorted)>> \o InsertDesc(Tail(sorted), d)
    ELSE <<d>> \o sorted

\* .sort({ amount: -1 })
RECURSIVE SortByAmountDesc(_)
SortByAmountDesc(docs) ==
    IF docs = <<>> THEN <<>>
    ELSE InsertDesc(SortByAmountDesc(SubSeq(docs, 1, Len(docs) - 1)), docs[Len(docs)])

\* .limit(n)
Limit(docs, n) == SubSeq(docs, 1, IF Len(docs) < n THEN Len(docs) ELSE n)

\* docs.map(d => ({ title, amount, deadline }))
Project(docs) ==
    [i \in 1..Len(docs) |->
        [title |-> docs[i].title, amount |-> docs[i].amount, deadline |-> docs[i].deadline]]

\* A variant without the sort.
TopScholarshipsUnsorted(docs) == Project(Limit(docs, TopN))

\* find({}).sort({ amount: -1 }).limit(5).toArray(), then the projection.
TopScholarships(docs) == Project(Limit(SortByAmountDesc(docs), TopN))

(***************************************************************************)
(* POST /api/dashboard/next-steps                                          *)
(***************************************************************************)
NoScholarships == [defined |-> FALSE, items |-> <<>>]
Given(items) == [defined |-> TRUE, items |-> items]

NoReq == [studentProfile |-> "undefined", collegeMatches |-> "undefined",
          scholarships |-> NoScholarships, userId |-> "undefined"]
NoLoc == [studentProfile |-> "undefined", collegeMatches |-> "undefined",
          scholarships |-> NoScholarships]
NoRes == [status |-> 0, error |-> "", nextSteps |-> NoResult]

RequestBodies ==
    {[studentProfile |-> p, collegeMatches |-> m, scholarships |-> s, userId |-> u] :
        p \in {"undefined", "callerProfile"},
        m \in {"undefined", "callerMatches"},
        s \in {NoScholarships, Given(<<[title |-> 9, amount |-> 750, deadline |-> "2026-03-01"]>>)},
        u \in {"undefined", "alex123"}}

\* A variant that leaves the profile as it was resolved.
OrEmptyObjectKept(v) == v

\* studentProfile || {}
OrEmptyObject(v) == IF v \in {"undefined", "null"} THEN "{}" ELSE v

\* collegeMatches || []
OrEmptyArray(v) == IF v \in {"undefined", "null"} THEN "[]" ELSE v

\* res.status(code).json({ error })
SendError(code, text) == [status |-> code, error |-> text, nextSteps |-> NoResult]

\* res.json({ nextSteps })
SendNextSteps(result) == [status |-> 200, error |-> "", nextSteps |-> result]

\* line 184: const nextSteps = await getNextSteps(studentProfile, collegeMatches, scholarships)
AwaitGetNextSteps(l, pend, done) ==
    /\ hpc' = "awaitNextSteps"
    /\ pending' = pend
    /\ fetched' = done
    /\ loc' = l
    /\ GetNextStepsCall([profile |-> l.studentProfile, matches |-> l.collegeMatches,
                         scholarships |-> l.scholarships.items])
    /\ UNCHANGED <<res, failed>>

\* A variant that starts the fetch and goes on to the call without awaiting it.
FetchNotAwaited(stage, coll, l, pend, done) ==
    AwaitGetNextSteps(l, pend \cup {coll}, done)

\* await db.collection(coll)...: the fetch is started and the handler is
\* suspended until it settles.
AwaitFetch(stage, coll, l, pend, done) ==
    /\ hpc' = stage
    /\ pending' = pend \cup {coll}
    /\ fetched' = done
    /\ loc' = l
    /\ UNCHANGED <<gvars, res, failed>>

\* lines 177-184
ResolveScholarships(l, pend, done) ==
    IF ~l.scholarships.defined
    THEN AwaitFetch("awaitScholarships", "scholarships", l, pend, done)
    ELSE AwaitGetNextSteps(l, pend, done)

\* lines 175-184: collegeMatches = collegeMatches || [], then on
DefaultMatches(l, pend, done) ==
    ResolveScholarships([l EXCEPT !.collegeMatches = OrEmptyArray(@)], pend, done)

\* lines 170-184
ResolveMatches(l, uid, pend, done) ==
    IF l.collegeMatches = "undefined" /\ uid # "undefined"
    THEN AwaitFetch("awaitMatches", "college_matches", l, pend, done)
    ELSE DefaultMatches(l, pend, done)

\* lines 168-184: studentProfile = studentProfile || {}, then on
DefaultProfile(l, uid, pend, done) ==
    ResolveMatches([l EXCEPT !.studentProfile = OrEmptyObject(@)], uid, pend, done)

\* lines 161-184
ResolveProfile(l, uid, pend, done) ==
    IF l.studentProfile = "undefined" /\ uid # "undefined"
    THEN AwaitFetch("awaitProfile", "user_applications", l, pend, done)
    ELSE DefaultProfile(l, uid, pend, done)

\* lines 152-163: the request arrives; getDB() yields a handle or nothing.
PostNextSteps(body, db) ==
    /\ hpc = "idle"
    /\ req' = body
    /\ dbUp' = db
    /\ UNCHANGED store
    /\ IF ~db
       THEN /\ hpc' = "done"
            /\ res' = SendError(503, "Database service unavailable")
            /\ UNCHANGED <<gvars, loc, pending, fetched, failed>>
       ELSE ResolveProfile([studentProfile |-> body.studentProfile,
                            collegeMatches |-> body.collegeMatches,
                            scholarships |-> body.scholarships],
                           body.userId, {}, {})

UserDocs == {"null", "storedProfile"}

\* lines 163-164: findOne({ userId }) settled; studentProfile = userDoc || null.
ProfileFetched(userDoc) ==
    /\ hpc = "awaitProfile"
    /\ UNCHANGED <<req, dbUp, store>>
    /\ DefaultProfile([loc EXCEPT !.studentProfile = userDoc], req.userId,
                      pending \ {"user_applications"}, fetched \cup {"user_applications"})

Snapshots == {"null", "snapshotWithoutMatches", "snapshotWithMatches"}

\* cm?.matches || []
MatchesOf(cm) == IF cm = "snapshotWithMatches" THEN "cachedMatches" ELSE "[]"

\* lines 172-173: findOne({ userId }, { sort: { snapshotAt: -1 } }) settled.
MatchesFetched(cm) ==
    /\ hpc = "awaitMatches"
    /\ UNCHANGED <<req, dbUp, store>>
    /\ DefaultMatches([loc EXCEPT !.collegeMatches = MatchesOf(cm)],
                      pending \ {"college_matches"}, fetched \cup {"college_matches"})

\* lines 179-180: the top-5 query settled.
ScholarshipsFetched ==
    /\ hpc = "awaitScholarships"
    /\ UNCHANGED <<req, dbUp, store>>
    /\ AwaitGetNextSteps([loc EXCEPT !.scholarships = Given(TopScholarships(store))],
                         pending \ {"scholarships"}, fetched \cup {"scholarships"})

\* lines 187-190: an awaited fetch rejected; the catch answers 500.
FetchRejects ==
    /\ hpc \in {"awaitProfile", "awaitMatches", "awaitScholarships"}
    /\ hpc' = "done"
    /\ pending' = {}
    /\ failed' = pending
    /\ res' = SendError(500, "Failed to generate next steps")
    /\ UNCHANGED <<gvars, req, dbUp, store, loc, fetched>>

\* lines 184-190: getNextSteps settled; the handler answers.
NextStepsSettled ==
    /\ hpc = "awaitNextSteps"
    /\ gpc = "returned"
    /\ hpc' = "done"
    /\ res' = IF gResult.kind = "throw"
              THEN SendError(500, "Failed to generate next steps")
              ELSE SendNextSteps(gResult)
    /\ gpc' = "idle"
    /\ UNCHANGED <<gArgs, gOutcome, gResult, req, dbUp, store, loc, pending, fetched, failed>>

\* The response has been sent; the request-scoped values are dropped.
RequestEnds ==
    /\ hpc = "done"
    /\ hpc' = "idle"
    /\ req' = NoReq
    /\ dbUp' = TRUE
    /\ loc' = NoLoc
    /\ pending' = {}
    /\ fetched' = {}
    /\ failed' = {}
    /\ res' = NoRes
    /\ gArgs' = NoArgs
    /\ gOutcome' = NoOutcome
    /\ gResult' = NoResult
    /\ UNCHANGED <<gpc, store>>

HandlerResponses ==
    {[choices |-> <<>>]}
    \cup {[choices |-> <<[content |-> [isNull |-> FALSE, text |-> b]]>>] :
            b \in {WithNextSteps(<<"[">> \o StepToks(3) \o <<"]">>),
                   WithNextSteps(<<"[">> \o StepToks(1) \o <<"]">>),
                   <<"Sure">> \o WithNextSteps(<<"[">> \o StepToks(3) \o <<"]">>)}}

InitHandler ==
    /\ hpc = "idle"
    /\ req = NoReq
    /\ dbUp = TRUE
    /\ loc = NoLoc
    /\ pending = {}
    /\ fetched = {}
    /\ failed = {}
    /\ res = NoRes

InitGenerator ==
    /\ gpc = "idle"
    /\ gArgs = NoArgs
    /\ gOutcome = NoOutcome
    /\ gResult = NoResult

(***************************************************************************)
(* The launcher (startup.js)                                               *)
(***************************************************************************)
Signals == {"SIGTERM", "SIGINT"}
ChildCodes == 0..MaxChildCode

ExitCode(n) == [isNull |-> FALSE, code |-> n]
NullCode == [isNull |-> TRUE, code |-> 0]     \* code is null: the child was ended by a signal
NotExited == [cause |-> "none", status |-> 0]

\* process.exit(code): null and undefined leave the status at its default, 0.
ProcessExit(cause, code) ==
    /\ lpc' = "exited"
    /\ lExit' = [cause |-> cause, status |-> IF code.isNull THEN 0 ELSE code.code]

\* The operating system delivers SIGTERM or SIGINT to the launcher.
SignalArrives(sig) ==
    /\ lpc = "running"
    /\ sent < MaxSignals
    /\ sent' = sent + 1
    /\ inbox' = Append(inbox, sig)
    /\ UNCHANGED <<lpc, lExit, child, childExit, childInbox, events>>

\* A variant whose handler forwards the signal and then exits itself.
OnSignalThenExit(delivered) ==
    /\ lpc = "running"
    /\ inbox # <<>>
    /\ delivered
    /\ inbox' = Tail(inbox)
    /\ childInbox' = IF child = "running" THEN Append(childInbox, Head(inbox)) ELSE childInbox
    /\ ProcessExit("signal", ExitCode(0))
    /\ UNCHANGED <<child, childExit, events, sent>>

\* lines 36-44: the handler logs and calls server.kill(sig).  delivered is
\* whether the kill system call succeeded; on an exited or unspawned child
\* kill() does nothing, and a failed kill emits 'error' at once (line 25).
OnSignal(delivered) ==
    /\ lpc = "running"
    /\ inbox # <<>>
    /\ inbox' = Tail(inbox)
    /\ UNCHANGED <<child, childExit, events, sent>>
    /\ IF child # "running"
       THEN delivered /\ UNCHANGED <<lpc, lExit, childInbox>>
       ELSE IF delivered
            THEN childInbox' = Append(childInbox, Head(inbox)) /\ UNCHANGED <<lpc, lExit>>
            ELSE ProcessExit("error", ExitCode(1)) /\ UNCHANGED childInbox

\* The child acts on a forwarded signal: it is ended by it (code null), or
\* its own handler exits with a code.
ChildTakesSignal(how) ==
    /\ child = "running"
    /\ childInbox # <<>>
    /\ childInbox' = Tail(childInbox)
    /\ child' = "exited"
    /\ childExit' = how
    /\ events' = Append(events, "exit")
    /\ UNCHANGED <<lpc, lExit, inbox, sent>>

\* The child's own handler takes a forwarded signal and the child carries on.
ChildIgnoresSignal ==
    /\ child = "running"
    /\ childInbox # <<>>
    /\ childInbox' = Tail(childInbox)
    /\ UNCHANGED <<lpc, lExit, child, childExit, events, inbox, sent>>

\* The child ends without a forwarded signal: it exits with a code, or
\* something else ends it by a signal.
ChildExits(how) ==
    /\ child = "running"
    /\ child' = "exited"
    /\ childExit' = how
    /\ events' = Append(events, "exit")
    /\ UNCHANGED <<lpc, lExit, inbox, childInbox, sent>>

\* lines 25-28
OnChildError ==
    /\ lpc = "running"
    /\ events # <<>>
    /\ Head(events) = "error"
    /\ events' = Tail(events)
    /\ ProcessExit("error", ExitCode(1))
    /\ UNCHANGED <<child, childExit, inbox, childInbox, sent>>

\* lines 30-33
OnChildExit ==
    /\ lpc = "running"
    /\ events # <<>>
    /\ Head(events) = "exit"
    /\ events' = Tail(events)
    /\ ProcessExit("exit", childExit)
    /\ UNCHANGED <<child, childExit, inbox, childInbox, sent>>

\* After lines 1-44 have run: the child was spawned, or spawn failed and
\* its 'error' event is queued.
InitLauncher ==
    /\ lpc = "running"
    /\ lExit = NotExited
    /\ childExit = NullCode
    /\ inbox = <<>>
    /\ childInbox = <<>>
    /\ sent = 0
    /\ \/ child = "running" /\ events = <<>>
       \/ child = "unspawned" /\ events = <<"error">>

NextLauncher ==
    \/ (\E sig \in Signals : SignalArrives(sig)) /\ UNCHANGED <<gvars, hvars>>
    \/ (\E delivered \in BOOLEAN : OnSignal(delivered)) /\ UNCHANGED <<gvars, hvars>>
    \/ (\E how \in {ExitCode(n) : n \in ChildCodes} \cup {NullCode} : ChildExits(how))
            /\ UNCHANGED <<gvars, hvars>>
    \/ (\E n \in ChildCodes : ChildTakesSignal(ExitCode(n))) /\ UNCHANGED <<gvars, hvars>>
    \/ ChildTakesSignal(NullCode) /\ UNCHANGED <<gvars, hvars>>
    \/ ChildIgnoresSignal /\ UNCHANGED <<gvars, hvars>>
    \/ OnChildError /\ UNCHANGED <<gvars, hvars>>
    \/ OnChildExit /\ UNCHANGED <<gvars, hvars>>

InitLauncherSpec == InitGenerator /\ InitHandler /\ store = <<>> /\ InitLauncher

SpecLauncher == InitLauncherSpec /\ [][NextLauncher]_vars

\* The launcher is not part of a request: it stays as started.
LauncherIdle ==
    /\ lpc = "running"
    /\ lExit = NotExited
    /\ child = "running"
    /\ childExit = NullCode
    /\ inbox = <<>>
    /\ childInbox = <<>>
    /\ events = <<>>
    /\ sent = 0

(***************************************************************************)
(* getNextSteps called directly, over every body                           *)
(***************************************************************************)
InitGen == InitGenerator /\ InitHandler /\ store = <<>> /\ LauncherIdle

NextGen ==
    \/ (\E args \in DirectArgs : GetNextStepsCall(args)) /\ UNCHANGED <<hvars, lvars>>
    \/ (\E resp \in Responses : ServiceFulfils(resp)) /\ UNCHANGED <<hvars, lvars>>
    \/ (\E msg \in FaultMessages : ServiceRejects(msg)) /\ UNCHANGED <<hvars, lvars>>
    \/ CallerTakesResult /\ UNCHANGED <<hvars, lvars>>

SpecGen == InitGen /\ [][NextGen]_vars

(***************************************************************************)
(* The handler, its store and the service                                  *)
(***************************************************************************)
InitHandlerSpec == InitGenerator /\ InitHandler /\ store \in Stores /\ LauncherIdle

NextHandler ==
    \/ (\E body \in RequestBodies, db \in BOOLEAN : PostNextSteps(body, db)) /\ UNCHANGED lvars
    \/ (\E userDoc \in UserDocs : ProfileFetched(userDoc)) /\ UNCHANGED lvars
    \/ (\E cm \in Snapshots : MatchesFetched(cm)) /\ UNCHANGED lvars
    \/ ScholarshipsFetched /\ UNCHANGED lvars
    \/ FetchRejects /\ UNCHANGED lvars
    \/ (\E resp \in HandlerResponses : ServiceFulfils(resp)) /\ UNCHANGED <<hvars, lvars>>
    \/ (\E msg \in FaultMessages : ServiceRejects(msg)) /\ UNCHANGED <<hvars, lvars>>
    \/ NextStepsSettled /\ UNCHANGED lvars
    \/ RequestEnds /\ UNCHANGED lvars

SpecHandler == InitHandlerSpec /\ [][NextHandler]_vars
(***************************************************************************)
(* Properties                                                              *)
(***************************************************************************)
\* { task: non-empty text }
IsNextStep(v) ==
    /\ v.t = "obj"
    /\ \E i \in 1..Len(v.a) : v.a[i].s = "task"
    /\ LET task == GetProp(v, "task").val IN task.t = "str" /\ task.s # ""

IsNextStepSeq(v) == v.t = "arr" /\ \A i \in 1..Len(v.a) : IsNextStep(v.a[i])

HasKey(v, key) == v.t = "obj" /\ \E i \in 1..Len(v.a) : v.a[i].s = key

\* The service answered with a message whose content is `content`.
Answered == gpc = "returned" /\ gOutcome.settled = "fulfilled" /\ Len(gOutcome.response.choices) > 0
AnsweredText == ToStr(gOutcome.response.choices[1].content)

\* C1: getNextSteps returns exactly 3 NextStep values or an error descriptor.
C1_ThreeStepsOrError ==
    gpc = "returned" =>
        \/ gResult.kind = "error"
        \/ gResult.kind = "value" /\ IsNextStepSeq(gResult.val) /\ Len(gResult.val.a) = 3

\* C2: getNextSteps returns an error value only when the reasoning-service
\* call itself failed; a reply that arrived never yields an error value.
C2_ErrorOnlyOnTransportFailure ==
    gpc = "returned" =>
        /\ gResult.kind = "error" => gOutcome.settled = "rejected"
        /\ gOutcome.settled = "fulfilled" => gResult.kind = "value"

\* C3: a body that parses as JSON to a value without a nextSteps key gives
\* the empty sequence, whatever JSON value it is.
C3_NoKeyGivesEmpty ==
    (Answered /\ ~gOutcome.response.choices[1].content.isNull /\ ~JSONparse(AnsweredText).threw /\ ~HasKey(JSONparse(AnsweredText).val, "nextSteps"))
        => gResult = Returned(JArr(<<>>))

ExpectedFallbackTasks ==
    << "Complete your college applications early to meet deadlines",
       "Research and apply for scholarships that match your profile",
       "Prepare for college entrance exams and improve your test scores" >>

TasksOf(v) == [i \in 1..Len(v.a) |-> GetProp(v.a[i], "task").val.s]

\* C4: a body that is not parseable as JSON gives the fixed fallback: the
\* three tasks on deadlines, scholarships and test scores, in that order,
\* as a value and not as an error descriptor or an exception.
C4_UnparseableGivesFallback ==
    (Answered /\ ~gOutcome.response.choices[1].content.isNull /\ JSONparse(AnsweredText).threw) =>
        /\ gResult.kind = "value"
        /\ IsNextStepSeq(gResult.val)
        /\ TasksOf(gResult.val) = ExpectedFallbackTasks

C4_Witness ==
    /\ Answered
    /\ AnsweredText = <<"Sure">> \o WithNextSteps(<<"[">> \o StepToks(3) \o <<"]">>)
    /\ gResult.kind = "value"

\* C5: when the service call throws, getNextSteps returns an error
\* descriptor carrying the fault's message, and never lets an exception out.
C5_RejectionGivesErrorDescriptor ==
    /\ gResult.kind # "throw"
    /\ (gpc = "returned" /\ gOutcome.settled = "rejected") =>
            gResult.kind = "error" /\ gResult.error = gOutcome.message

C5_Witness ==
    /\ gpc = "returned"
    /\ gOutcome.settled = "rejected"
    /\ gOutcome.message = "401 Incorrect API key provided"
    /\ gResult.kind = "error"

\* C6: a transport-failure error value from getNextSteps is answered with a
\* service-unavailable response that does not carry the provider's error text.
C6_TransportFailureMasked ==
    (hpc = "done" /\ gOutcome.settled = "rejected") =>
        /\ res.status = 503
        /\ res.error # gOutcome.message
        /\ res.nextSteps.error # gOutcome.message

Called == gArgs # NoArgs

ResolvedInputs ==
    /\ gArgs.profile \notin {"undefined", "null", "none"}
    /\ gArgs.matches \notin {"undefined", "null", "none"}
    /\ loc.scholarships.defined
    /\ gArgs.scholarships = loc.scholarships.items

\* C7 as stated: whatever the backing store does, the request never ends
\* before getNextSteps is called with three resolved inputs.
C7_ResolutionNeverFails ==
    /\ hpc = "done" => Called
    /\ Called => ResolvedInputs

\* C7 as amended: the request ends before the call only with 503 when
\* getDB() gave no handle or with 500 when a fetch rejected; otherwise the
\* call is reached, and always with three resolved inputs.
C7_ResolutionFailsOnlyOnStoreFault ==
    /\ (hpc = "done" /\ ~Called) =>
            \/ ~dbUp /\ res.status = 503 /\ failed = {}
            \/ dbUp /\ res.status = 500 /\ failed # {}
    /\ (hpc = "done" /\ dbUp /\ failed = {}) => Called
    /\ Called => (ResolvedInputs /\ dbUp /\ failed = {})

\* Records missing and the store empty: all three inputs resolve to empty.
C7_Witness ==
    /\ hpc = "awaitNextSteps"
    /\ req.userId = "alex123"
    /\ req.studentProfile = "undefined"
    /\ req.collegeMatches = "undefined"
    /\ ~req.scholarships.defined
    /\ fetched = {"user_applications", "college_matches", "scholarships"}
    /\ gArgs = [profile |-> "{}", matches |-> "[]", scholarships |-> <<>>]

NoCallerData ==
    /\ hpc = "awaitNextSteps"
    /\ req.studentProfile = "undefined"
    /\ req.collegeMatches = "undefined"
    /\ ~req.scholarships.defined
    /\ req.userId = "undefined"

DescendingByAmount(items) ==
    \A i, j \in 1..Len(items) : i < j => items[i].amount >= items[j].amount

\* items are distinct documents of the store, and no document left out has a
\* larger amount than one taken.
TopOfStore(items) ==
    \E pick \in [1..Len(items) -> 1..Len(store)] :
        /\ \A i, j \in 1..Len(items) : i # j => pick[i] # pick[j]
        /\ \A i \in 1..Len(items) :
              items[i] = [title |-> store[pick[i]].title, amount |-> store[pick[i]].amount,
                          deadline |-> store[pick[i]].deadline]
        /\ \A k \in 1..Len(store) :
              (\A i \in 1..Len(items) : pick[i] # k) =>
                  \A i \in 1..Len(items) : store[k].amount <= items[i].amount

\* C8 as stated: no caller data and no userId give {}, [] and a non-empty
\* sequence of at most 5 store scholarships in descending order of amount.
C8_NonEmptyTopFive ==
    NoCallerData =>
        /\ gArgs.profile = "{}"
        /\ gArgs.matches = "[]"
        /\ Len(gArgs.scholarships) >= 1
        /\ Len(gArgs.scholarships) <= 5
        /\ DescendingByAmount(gArgs.scholarships)
        /\ TopOfStore(gArgs.scholarships)

\* C8 as amended: the sequence holds the min(5, n) highest-amount
\* scholarships of the n in the store, so it is empty when the store is.
C8_TopFive ==
    NoCallerData =>
        /\ gArgs.profile = "{}"
        /\ gArgs.matches = "[]"
        /\ Len(gArgs.scholarships) = (IF Len(store) < 5 THEN Len(store) ELSE 5)
        /\ DescendingByAmount(gArgs.scholarships)
        /\ TopOfStore(gArgs.scholarships)

C8_Witness ==
    /\ NoCallerData
    /\ Len(store) > 5
    /\ Len(gArgs.scholarships) = 5
    /\ store[1].amount < store[Len(store)].amount
    /\ gArgs.scholarships[1].amount > gArgs.scholarships[5].amount

\* C9: the reasoning service is invoked only once every backing-store fetch
\* started for the request has settled and all three inputs are resolved.
C9_ServiceAfterResolution ==
    (gpc = "awaiting" \/ gOutcome.settled # "none") =>
        /\ pending = {}
        /\ failed = {}
        /\ loc.studentProfile \notin {"undefined", "null"}
        /\ loc.collegeMatches \notin {"undefined", "null"}
        /\ loc.scholarships.defined
        /\ gArgs = [profile |-> loc.studentProfile, matches |-> loc.collegeMatches,
                    scholarships |-> loc.scholarships.items]

C9_Witness ==
    /\ gpc = "awaiting"
    /\ fetched = {"user_applications", "college_matches", "scholarships"}
    /\ pending = {}

\* C10 as stated: the launcher exits only on the child's 'exit' event, with
\* the child's exit code, or with 1 on the child's 'error' event.
C10_ExitsWithChildCode ==
    lpc = "exited" =>
        \/ lExit.cause = "exit" /\ child = "exited" /\ ~childExit.isNull /\ lExit.status = childExit.code
        \/ lExit.cause = "error" /\ lExit.status = 1

\* C10 as amended: handling a signal forwards it to a running child and
\* leaves the launcher running unless the forwarding itself fails (an
\* 'error' event); the launcher exits only on the child's 'exit' event, with
\* the child's code, or 0 when that code is null, or with 1 on 'error'.
C10_ExitFollowsChild ==
    [][ /\ (lpc = "running" /\ lpc' = "exited") =>
              \/ /\ lExit'.cause = "exit"
                 /\ child = "exited"
                 /\ lExit'.status = (IF childExit.isNull THEN 0 ELSE childExit.code)
              \/ lExit'.cause = "error" /\ lExit'.status = 1
        /\ (inbox # <<>> /\ inbox' = Tail(inbox) /\ child = "running") =>
              \/ lpc' = "running" /\ childInbox' = Append(childInbox, Head(inbox))
              \/ lpc' = "exited" /\ lExit'.cause = "error" /\ childInbox' = childInbox
      ]_vars

C10_Witness ==
    /\ lpc = "exited"
    /\ lExit = [cause |-> "exit", status |-> 0]
    /\ sent >= 1
    /\ inbox = <<>>
    /\ childInbox = <<>>
    /\ child = "exited"
    /\ childExit.isNull

====
